---- MODULE Spec2Model ----
(***************************************************************************)
(* Fusion retrieval (vector search + BM25) of the RAG_Techniques           *)
(* notebooks: the vector store and the BM25 index as they are built, and   *)
(* fusion_retrieval as it normalises, combines, ranks and slices; and      *)
(* crag_process of the corrective RAG notebook, the feedback loop, the     *)
(* adaptive retriever, the rerankers and the hierarchical retrieval.       *)
(*                                                                         *)
(* Specifications.  Spec: builds and calls of fusion_retrieval whose       *)
(* collaborators answer.  SpecFailing: calls in which a collaborator       *)
(* raises.  SpecRepeat: calls repeated with the same arguments.            *)
(* SpecConcurrent: two calls interleaved statement by statement.           *)
(* SpecScenario: the four-chunk scenario.  SpecCrag: calls of crag_process.*)
(* SpecFeedback: the feedback file, its stores and loads, fine_tune_index. *)
(* SpecAdjust: adjust_relevance_scores.  SpecAdaptive: the adaptive        *)
(* retriever.  SpecRerank: rerank_documents and the cross-encoder          *)
(* retriever.  SpecHierarchical: retrieve_hierarchical.                    *)
(*                                                                         *)
(* Numbers.  Raw scores are multiples of 1/ScoreDen, alpha is a multiple   *)
(* of 1/AlphaDen and epsilon is 1/EpsInv.  Every value the function        *)
(* computes is then a quotient of two polynomials in E = EpsInv with small *)
(* integer coefficients; a polynomial is the tuple <<c0,c1,c2,c3,c4>> of   *)
(* its coefficients.  Since every coefficient is far smaller than E, the   *)
(* sign of a polynomial is the sign of its leading non-zero coefficient,   *)
(* so the arithmetic below is exact (rounding of IEEE doubles is not       *)
(* modelled).  Positions are 1-based here and 0-based in the source.       *)
(***************************************************************************)
EXTENDS Integers, Sequences, FiniteSets, TLC

\* ---- bounds of the model ----
MaxDocs == 2        \* at most MaxDocs chunks in a corpus
MaxRaw == 1         \* raw scores range over 0..MaxRaw (in units of 1/ScoreDen)
AlphaDen == 2       \* alpha ranges over multiples of 1/AlphaDen
ScoreDen == 20      \* raw scores are multiples of 1/ScoreDen
MaxScore == 10      \* relevance scores range over 0..MaxScore tenths
MaxItems == 2       \* at most MaxItems items in a JSON array of search results
MaxFeedback == 2    \* at most MaxFeedback feedbacks are stored

\* ---- program constant: epsilon = 1e-8 = 1/EpsInv ----
EpsInv == 100000000

\* alpha: below 0, 0, inside (0, 1), 1 and above 1
AlphaNums == {0 - 1, 0, 1, AlphaDen, AlphaDen + 1}
\* k: negative, 0, 1, the corpus bound and above it
TopKs == {0 - 1, 0, 1, MaxDocs, MaxDocs + 1}
RawScores == 0 .. MaxRaw

VARIABLES
    cleaned_texts,     \* the chunks of the PDF, as document ids 1..n
    vectorstore,       \* the FAISS store: its size and its answer to the query ""
    bm25,              \* the BM25 index: the documents it was built over, in order
    argsort_ties,      \* how this build of np.argsort orders equal keys
    pc,                \* "idle", "returned" or "raised"
    query,             \* the query of the call, as the raw scores it produces
    k,                 \* argument k of the call
    alpha,             \* argument alpha of the call, as numerator over AlphaDen
    all_docs,          \* local all_docs
    vector_results,    \* local vector_results: <<[doc, score], ...>>
    vector_scores,     \* local vector_scores after normalisation
    bm25_scores,       \* local bm25_scores after normalisation
    combined_scores,   \* local combined_scores
    sorted_indices,    \* local sorted_indices
    result,            \* what the call gave back: an exception or a list
    calls,             \* how often the call invoked each collaborator
    threads,           \* concurrent calls: where each is and its arguments
    frames,            \* concurrent calls: the locals of each call
    crag,              \* crag_process: its locals and what it did
    feedback,          \* the feedback loop: the file and the call on it
    adaptive,          \* AdaptiveRetriever.get_relevant_documents: the call
    rerank,            \* rerank_documents and CrossEncoderRetriever: the call
    hier               \* retrieve_hierarchical: the stores and the call

build == <<cleaned_texts, vectorstore, bm25, argsort_ties>>
call == <<query, k, alpha, all_docs, vector_results, vector_scores,
          bm25_scores, combined_scores, sorted_indices, result, calls>>
concurrent == <<threads, frames>>
fusion == <<build, pc, call, concurrent>>
notebooks == <<crag, feedback, adaptive, rerank, hier>>
vars == <<cleaned_texts, vectorstore, bm25, argsort_ties, pc, query, k, alpha,
          all_docs, vector_results, vector_scores, bm25_scores,
          combined_scores, sorted_indices, result, calls, threads, frames, crag,
          feedback, adaptive, rerank, hier>>

\* ---- exact arithmetic on polynomials in E ----
PConst(c) == <<c, 0, 0, 0, 0>>
PLin(c1, c0) == <<c0, c1, 0, 0, 0>>
PAdd(a, b) == <<a[1] + b[1], a[2] + b[2], a[3] + b[3], a[4] + b[4], a[5] + b[5]>>
PSub(a, b) == <<a[1] - b[1], a[2] - b[2], a[3] - b[3], a[4] - b[4], a[5] - b[5]>>
PScale(s, a) == <<s * a[1], s * a[2], s * a[3], s * a[4], s * a[5]>>
\* the operands have degree 2 at most, or their degrees add up to 4 at most
PMul(a, b) ==
    <<a[1] * b[1],
      a[1] * b[2] + a[2] * b[1],
      a[1] * b[3] + a[2] * b[2] + a[3] * b[1],
      a[1] * b[4] + a[2] * b[3] + a[3] * b[2] + a[4] * b[1],
      a[1] * b[5] + a[2] * b[4] + a[3] * b[3] + a[4] * b[2] + a[5] * b[1]>>
Sgn(x) == IF x > 0 THEN 1 ELSE IF x < 0 THEN 0 - 1 ELSE 0
PSign(a) ==
    IF a[5] # 0 THEN Sgn(a[5])
    ELSE IF a[4] # 0 THEN Sgn(a[4])
    ELSE IF a[3] # 0 THEN Sgn(a[3])
    ELSE IF a[2] # 0 THEN Sgn(a[2])
    ELSE Sgn(a[1])

\* a number is num/den with den > 0
Rat(num, den) == [num |-> num, den |-> den]
RatCmp(a, b) ==
    IF a.den = b.den THEN PSign(PSub(a.num, b.num))
    ELSE PSign(PSub(PMul(a.num, b.den), PMul(b.num, a.den)))
RatLess(a, b) == RatCmp(a, b) < 0
RatEq(a, b) == RatCmp(a, b) = 0
RatLeq(a, b) == RatCmp(a, b) <= 0
RatZero == Rat(PConst(0), PConst(1))
RatOne == Rat(PConst(1), PConst(1))

\* ---- helpers on sequences ----
SeqMinMutant(s) == s[1]
RECURSIVE SeqMin(_)
SeqMin(s) == IF Len(s) = 1 THEN s[1]
             ELSE LET m == SeqMin(Tail(s)) IN IF s[1] < m THEN s[1] ELSE m
RECURSIVE SeqMax(_)
SeqMax(s) == IF Len(s) = 1 THEN s[1]
             ELSE LET m == SeqMax(Tail(s)) IN IF s[1] > m THEN s[1] ELSE m
\* the sequence <<F(1), ..., F(n)>>
RECURSIVE Build(_, _)
Build(F(_), n) == IF n = 0 THEN <<>> ELSE Append(Build(F, n - 1), F(n))
IdSeq(n) == [i \in 1..n |-> i]
Min2(x, y) == IF x < y THEN x ELSE y
Unset == <<>>
NoResult == [raised |-> "none", value |-> <<>>]

RatAdd(a, b) == Rat(PAdd(PMul(a.num, b.den), PMul(b.num, a.den)), PMul(a.den, b.den))
RatScale(cn, cd, a) == Rat(PScale(cn, a.num), PScale(cd, a.den))

\* ---- the collaborators, as far as fusion_retrieval depends on them ----

\* The n chunks of a store, nearest first for a query whose distance to chunk
\* d is dist[d] (equal distances in chunk order).
NearestFirst(n, dist) ==
    LET Before(e, d) == dist[e] < dist[d] \/ (dist[e] = dist[d] /\ e < d)
        Rank(d) == 1 + Cardinality({e \in 1..n : Before(e, d)})
        ranks == Build(Rank, n)
        Hit(r) == CHOOSE d \in 1..n : ranks[d] = r
    IN Build(Hit, n)

\* FAISS.from_documents(cleaned_texts): a store over n chunks.  empty_order is
\* the order in which the store returns its chunks for the query "": nearest
\* first by the embedding of "", which the chunk order does not determine.
\* The model takes the two extreme stores: chunk order and its reverse.
VectorStores(n) ==
    LET Back(i) == n + 1 - i
    IN {[ntotal |-> n, empty_order |-> o] : o \in {Build(Back, n), IdSeq(n)}}

\* vectorstore.similarity_search("", k=kk)
similarity_search_empty(vs, kk) == SubSeq(vs.empty_order, 1, kk)

\* vectorstore.similarity_search_with_score(query, k=kk): the kk nearest chunks
\* with their distances, nearest first.
similarity_search_with_score_top1(vs, dist, kk) ==
    LET order == NearestFirst(vs.ntotal, dist)
        Hit(r) == [doc |-> order[r], score |-> dist[order[r]]]
    IN SubSeq(Build(Hit, vs.ntotal), 1, Min2(kk, 1))
similarity_search_with_score(vs, dist, kk) ==
    LET order == NearestFirst(vs.ntotal, dist)
        Hit(r) == [doc |-> order[r], score |-> dist[order[r]]]
    IN SubSeq(Build(Hit, vs.ntotal), 1, kk)

\* BM25Okapi(tokenized_docs): an index over the given documents, in their order
BM25Okapi(documents) == [corpus_size |-> Len(documents), documents |-> documents]

\* bm25.get_scores(query.split()): one raw score per indexed document, in the
\* order of the index
get_scores(index, scores) == SubSeq(scores, 1, index.corpus_size)

\* the three calls fusion_retrieval makes on its collaborators (lines 295,
\* 298, 301), and the exception each of them raises when it fails
Collaborators == {"similarity_search", "get_scores", "similarity_search_with_score"}
CollaboratorError(c) ==
    CASE c = "similarity_search" -> "similarity_search_error"
      [] c = "get_scores" -> "get_scores_error"
      [] c = "similarity_search_with_score" -> "similarity_search_with_score_error"
NoCalls == [c \in Collaborators |-> 0]

\* the queries a build can be asked: the distances and the BM25 scores they
\* give when every collaborator answers
Queries(vs, index) ==
    [dist : [1..vs.ntotal -> RawScores], bm25 : [1..index.corpus_size -> RawScores],
     fails : {"none"}]
\* the same queries when one of the collaborators raises instead of answering
FailingQueries(vs, index) ==
    [dist : [1..vs.ntotal -> RawScores], bm25 : [1..index.corpus_size -> RawScores],
     fails : Collaborators]
NoQuery == [dist |-> <<>>, bm25 |-> <<>>, fails |-> "none"]

\* ---- fusion_retrieval, step by step ----

\* np.min and np.max raise ValueError on an array of size zero
ZeroSizeMutant(raw) == FALSE
ZeroSize(raw) == Len(raw) = 0

\* (max - min + epsilon), times ScoreDen * E
DenominatorMutant(raw) == PLin(SeqMax(raw) - SeqMin(raw), 0)
Denominator(raw) == PLin(SeqMax(raw) - SeqMin(raw), ScoreDen)

\* line 305: 1 - (v - min) / (max - min + epsilon)
NormalizeVectorScoresMutant(raw) ==
    LET den == Denominator(raw)
        lo == SeqMin(raw)
        Norm(i) == Rat(PLin(raw[i] - lo, 0), den)
    IN Build(Norm, Len(raw))
NormalizeVectorScores(raw) ==
    LET den == Denominator(raw)
        lo == SeqMin(raw)
        Norm(i) == Rat(PSub(den, PLin(raw[i] - lo, 0)), den)
    IN Build(Norm, Len(raw))

\* line 307: (b - min) / (max - min + epsilon)
NormalizeBm25ScoresMutant(raw) ==
    LET den == Denominator(raw)
        Norm(i) == Rat(PLin(raw[i], 0), den)
    IN Build(Norm, Len(raw))
NormalizeBm25Scores(raw) ==
    LET den == Denominator(raw)
        lo == SeqMin(raw)
        Norm(i) == Rat(PLin(raw[i] - lo, 0), den)
    IN Build(Norm, Len(raw))

\* numpy broadcasting of two 1-d arrays: equal lengths, or one of length 1
Broadcastable(lv, lb) == lv = lb \/ lv = 1 \/ lb = 1
BroadcastLen(lv, lb) == IF lv = 1 THEN lb ELSE lv
At(s, i) == IF Len(s) = 1 THEN s[1] ELSE s[i]

\* line 310: alpha * vector_scores + (1 - alpha) * bm25_scores
CombineMutant(a, vs, bs) ==
    LET Sum(i) == RatAdd(RatScale(AlphaDen - a, AlphaDen, At(vs, i)),
                         RatScale(a, AlphaDen, At(bs, i)))
    IN Build(Sum, BroadcastLen(Len(vs), Len(bs)))
Combine(a, vs, bs) ==
    LET Sum(i) == RatAdd(RatScale(a, AlphaDen, At(vs, i)),
                         RatScale(AlphaDen - a, AlphaDen, At(bs, i)))
    IN Build(Sum, BroadcastLen(Len(vs), Len(bs)))

\* np.argsort(scores): positions in ascending order of score; equal scores in
\* the order this build of the sort leaves them in
Argsort(scores, ties) ==
    LET n == Len(scores)
        Before(j, i) ==
            LET c == RatCmp(scores[j], scores[i])
            IN c < 0 \/ (c = 0 /\ IF ties = "ascending" THEN j < i ELSE j > i)
        Rank(i) == 1 + Cardinality({j \in 1..n : Before(j, i)})
        ranks == Build(Rank, n)
        Pick(r) == CHOOSE i \in 1..n : ranks[i] = r
    IN Build(Pick, n)

\* s[::-1]
ReversedMutant(s) == s
Reversed(s) == LET Back(i) == s[Len(s) + 1 - i] IN Build(Back, Len(s))

\* s[:kk] of Python: a negative kk counts from the end
SliceTo(s, kk) ==
    LET n == Len(s)
        stop == IF kk >= 0 THEN (IF kk < n THEN kk ELSE n)
                ELSE (IF n + kk > 0 THEN n + kk ELSE 0)
    IN SubSeq(s, 1, stop)

\* line 316: [all_docs[i] for i in sorted_indices[:k]]
TopDocumentsMutant(docs, indices, kk) ==
    LET top == SliceTo(indices, kk)
    IN IF \E p \in 1..Len(top) : top[p] > Len(docs)
       THEN [raised |-> "IndexError", value |-> <<>>]
       ELSE LET Doc(p) == docs[top[1]]
            IN [raised |-> "none", value |-> Build(Doc, Len(top))]
TopDocuments(docs, indices, kk) ==
    LET top == SliceTo(indices, kk)
    IN IF \E p \in 1..Len(top) : top[p] > Len(docs)
       THEN [raised |-> "IndexError", value |-> <<>>]
       ELSE LET Doc(p) == docs[top[p]]
            IN [raised |-> "none", value |-> Build(Doc, Len(top))]

\* lines 294-301 sit in no try block: an exception raised by a collaborator
\* leaves fusion_retrieval as it is, and nothing is returned
PropagateMutant(exc) == [raised |-> "none", value |-> <<>>]
Propagate(exc) == [raised |-> exc, value |-> <<>>]

\* the locals and the outcome of fusion_retrieval(vs, index, q, kk, a), and
\* how often it called each collaborator
fusion_retrieval(vs, index, ties, q, kk, a) ==
    LET c1 == [NoCalls EXCEPT !["similarity_search"] = 1]
        c2 == [c1 EXCEPT !["get_scores"] = 1]
        c3 == [c2 EXCEPT !["similarity_search_with_score"] = 1]
        docs == similarity_search_empty(vs, vs.ntotal)
        braw == get_scores(index, q.bm25)
        vres == similarity_search_with_score(vs, q.dist, Len(docs))
        Score(i) == vres[i].score
        vraw == Build(Score, Len(vres))
        none == [all_docs |-> Unset, vector_results |-> Unset,
                 vector_scores |-> Unset, bm25_scores |-> Unset,
                 combined_scores |-> Unset, sorted_indices |-> Unset,
                 result |-> NoResult, calls |-> c1]
        base == [none EXCEPT !.all_docs = docs, !.vector_results = vres, !.calls = c3]
    IN IF q.fails = "similarity_search"
       THEN [none EXCEPT !.result = Propagate(CollaboratorError(q.fails))]
       ELSE IF q.fails = "get_scores"
       THEN [none EXCEPT !.all_docs = docs, !.calls = c2,
                         !.result = Propagate(CollaboratorError(q.fails))]
       ELSE IF q.fails = "similarity_search_with_score"
       THEN [none EXCEPT !.all_docs = docs, !.calls = c3,
                         !.result = Propagate(CollaboratorError(q.fails))]
       ELSE IF ZeroSize(vraw)
       THEN [base EXCEPT !.result = [raised |-> "ValueError_zero_size", value |-> <<>>]]
       ELSE LET vnorm == NormalizeVectorScores(vraw)
                l1 == [base EXCEPT !.vector_scores = vnorm]
       IN IF ZeroSize(braw)
       THEN [l1 EXCEPT !.result = [raised |-> "ValueError_zero_size", value |-> <<>>]]
       ELSE LET bnorm == NormalizeBm25Scores(braw)
                l2 == [l1 EXCEPT !.bm25_scores = bnorm]
       IN IF ~Broadcastable(Len(vnorm), Len(bnorm))
       THEN [l2 EXCEPT !.result = [raised |-> "ValueError_broadcast", value |-> <<>>]]
       ELSE LET comb == Combine(a, vnorm, bnorm)
                sorted == Reversed(Argsort(comb, ties))
       IN [l2 EXCEPT !.combined_scores = comb, !.sorted_indices = sorted,
                     !.result = TopDocuments(docs, sorted, kk)]

\* ---- corrective RAG (crag.ipynb) ----
\* Relevance scores are in tenths (7 is 0.7).  A text is a record that tells
\* where it comes from and whether knowledge_refinement has rewritten it; a
\* knowledge is the sequence of the texts it is made of.

\* retrieve_documents(query, faiss_index, k=3)
RetrieveK == 3
\* if max_score > 0.7 ... elif max_score < 0.3
UpperThreshold == 7
LowerThreshold == 3
EvalScores == 0 .. MaxScore

RawDocument(d) == [from |-> "document", id |-> d, refined |-> FALSE]
WebText == [from |-> "web", id |-> 0, refined |-> FALSE]

\* What search.run can return, by what json.loads makes of the string: not
\* JSON at all, a JSON scalar, string or object, or a JSON array of at most
\* MaxItems items, each an object (with or without title and link) or a number.
Items ==
    {[type |-> "object", title |-> "T", link |-> "L"],
     [type |-> "object", title |-> "absent", link |-> "absent"],
     [type |-> "number", title |-> "absent", link |-> "absent"]}
Arrays == UNION {[1..m -> Items] : m \in 0..MaxItems}
WebResults ==
    {[json |-> j, items |-> <<>>] :
        j \in {"invalid", "number", "null", "empty_string", "string",
               "empty_object", "object"}}
    \cup {[json |-> "array", items |-> a] : a \in Arrays}
NoWebResults == [json |-> "none", items |-> <<>>]

\* parse_search_results(results_string): the except clause catches
\* json.JSONDecodeError only
parse_search_results(results_string) ==
    LET items == results_string.items
        Title(i) == IF items[i].title = "absent" THEN "Untitled" ELSE items[i].title
        Link(i) == IF items[i].link = "absent" THEN "" ELSE items[i].link
        Pair(i) == <<Title(i), Link(i)>>
    IN CASE results_string.json = "invalid" -> [raised |-> "none", value |-> <<>>]
         [] results_string.json \in {"number", "null"} ->
                [raised |-> "TypeError", value |-> <<>>]
         [] results_string.json \in {"empty_string", "empty_object"} ->
                [raised |-> "none", value |-> <<>>]
         [] results_string.json \in {"string", "object"} ->
                [raised |-> "AttributeError", value |-> <<>>]
         [] results_string.json = "array" ->
                IF \E i \in 1..Len(items) : items[i].type # "object"
                THEN [raised |-> "AttributeError", value |-> <<>>]
                ELSE [raised |-> "none", value |-> Build(Pair, Len(items))]

\* the three language-model helpers, by what they are given
rewrite_query(q) == [rewritten |-> q]
knowledge_refinement(document) == <<[document EXCEPT !.refined = TRUE]>>

\* retrieve_documents: the k nearest chunks, as their page_content
retrieve_documents(nearest, kk) ==
    LET Content(i) == RawDocument(nearest[i])
    IN Build(Content, Min2(kk, Len(nearest)))

\* perform_web_search(query), the search returning web_results
perform_web_search(q, web_results) ==
    LET web_knowledge == knowledge_refinement(WebText)
        sources == parse_search_results(web_results)
    IN [raised |-> sources.raised, knowledge |-> web_knowledge,
        sources |-> sources.value, searched |-> <<rewrite_query(q)>>,
        refined |-> <<WebText>>]

\* eval_scores.index(max_score)
RECURSIVE Index(_, _)
Index(s, x) == IF s[1] = x THEN 1 ELSE 1 + Index(Tail(s), x)

\* the three branches of crag_process
IsCorrectMutant(max_score) == max_score >= UpperThreshold
IsCorrect(max_score) == max_score > UpperThreshold
IsIncorrect(max_score) == max_score < LowerThreshold

NoCrag == [pc |-> "idle", query |-> "", retrieved_docs |-> <<>>, eval_scores |-> <<>>,
           max_score |-> 0, action |-> "none", searched |-> <<>>, refined |-> <<>>,
           web_results |-> NoWebResults, final_knowledge |-> <<>>,
           sources |-> <<>>, raised |-> "none"]

\* crag_process(query, faiss_index): nearest is the index's answer to the
\* query, scores what retrieval_evaluator says of each retrieved document and
\* web_results what the search returns if it is asked
crag_process(q, nearest, scores, web_results) ==
    LET retrieved_docs == retrieve_documents(nearest, RetrieveK)
        eval_scores == SubSeq(scores, 1, Len(retrieved_docs))
        max_score == SeqMax(eval_scores)
        best_doc == retrieved_docs[Index(eval_scores, max_score)]
        web == perform_web_search(q, web_results)
        start == [NoCrag EXCEPT !.pc = "returned", !.query = q,
                                !.retrieved_docs = retrieved_docs,
                                !.eval_scores = eval_scores,
                                !.max_score = max_score]
        searching == [start EXCEPT !.searched = web.searched,
                                   !.web_results = web_results]
    IN IF IsCorrect(max_score)
       THEN [start EXCEPT !.action = "correct", !.final_knowledge = <<best_doc>>,
                          !.sources = <<<<"Retrieved document", "">>>>]
       ELSE IF IsIncorrect(max_score)
       THEN IF web.raised # "none"
            THEN [searching EXCEPT !.action = "incorrect", !.pc = "raised",
                                   !.refined = web.refined, !.raised = web.raised]
            ELSE [searching EXCEPT !.action = "incorrect", !.refined = web.refined,
                                   !.final_knowledge = web.knowledge,
                                   !.sources = web.sources]
       ELSE LET retrieved_knowledge == knowledge_refinement(best_doc)
                refined == <<best_doc>> \o web.refined
            IN IF web.raised # "none"
               THEN [searching EXCEPT !.action = "ambiguous", !.pc = "raised",
                                      !.refined = refined, !.raised = web.raised]
               ELSE [searching EXCEPT
                        !.action = "ambiguous", !.refined = refined,
                        !.final_knowledge = retrieved_knowledge \o web.knowledge,
                        !.sources = <<<<"Retrieved document", "">>>> \o web.sources]

\* ---- sorting, as the notebooks below do it ----
\* sorted(items, key=..., reverse=True): the sort is stable, so items with
\* equal keys keep their order; a key is a fraction <<numerator, denominator>>
KeyLessMutant(x, y) == x[1] * y[2] <= y[1] * x[2]
KeyLess(x, y) == x[1] * y[2] < y[1] * x[2]
RECURSIVE InsertDescending(_, _)
InsertDescending(x, sorted) ==
    IF sorted = <<>> THEN <<x>>
    ELSE IF KeyLess(x.key, Head(sorted).key)
         THEN <<Head(sorted)>> \o InsertDescending(x, Tail(sorted))
    ELSE <<x>> \o sorted
RECURSIVE SortedReverse(_)
SortedReverse(items) ==
    IF items = <<>> THEN <<>>
    ELSE InsertDescending(Head(items), SortedReverse(Tail(items)))

\* ---- retrieval with feedback loop (retrieval_with_feedback_loop.ipynb) ----
\* A text is a sequence of characters. Only the characters json and strip()
\* treat differently are told apart: the letters "a" and "n", the space "SP",
\* the newline "LF", the double quote "QUOTE" and the backslash "BSL".
GoodRating == 4
Neutral == 3
Digits == <<"0", "1", "2", "3", "4", "5", "6", "7", "8", "9">>
Whitespace == {"SP", "LF"}
Texts == {<<"a">>, <<"LF">>, <<"QUOTE", "SP">>, <<"BSL", "n">>}
Responses == {<<"n">>}
Ratings == {GoodRating - 1, GoodRating}
Content == <<"a", "SP", "a">>

RECURSIVE Flatten(_)
Flatten(ss) == IF ss = <<>> THEN <<>> ELSE Head(ss) \o Flatten(Tail(ss))

\* feedback = get_user_feedback(query, response, relevance, quality)
get_user_feedback(q, response, relevance, quality) ==
    [query |-> q, response |-> response, relevance |-> relevance,
     quality |-> quality, comments |-> <<>>]

Feedbacks == {get_user_feedback(q, r, relevance, quality) :
                 q \in Texts, r \in Responses,
                 relevance \in Ratings, quality \in Ratings}

\* json.dump writes a string between quotes and escapes the newline, the
\* quote and the backslash in it
EscapeMutant(c) ==
    CASE c = "QUOTE" -> <<"BSL", "QUOTE">>
      [] c = "BSL" -> <<"BSL", "BSL">>
      [] OTHER -> <<c>>
Escape(c) ==
    CASE c = "LF" -> <<"BSL", "n">>
      [] c = "QUOTE" -> <<"BSL", "QUOTE">>
      [] c = "BSL" -> <<"BSL", "BSL">>
      [] OTHER -> <<c>>
JsonString(t) == <<"QUOTE">> \o Flatten(Build(LAMBDA i : Escape(t[i]), Len(t))) \o <<"QUOTE">>
JsonNumber(n) == <<Digits[n + 1]>>

\* json.dump(feedback, f): one object, the keys in the order of the dict;
\* a key with its colon and space is one token
json_dump(f) ==
    <<"{", "query:">> \o JsonString(f.query)
    \o <<",", "SP", "response:">> \o JsonString(f.response)
    \o <<",", "SP", "relevance:">> \o JsonNumber(f.relevance)
    \o <<",", "SP", "quality:">> \o JsonNumber(f.quality)
    \o <<",", "SP", "comments:">> \o JsonString(f.comments)
    \o <<"}">>

\* json.loads, for the documents store_feedback writes; any other text is a
\* JSONDecodeError
Fail == [ok |-> FALSE, value |-> <<>>, next |-> 0]
Unescape(c) == IF c = "n" THEN "LF" ELSE c
RECURSIVE ReadString(_, _, _)
ReadString(line, i, acc) ==
    IF i > Len(line) \/ line[i] = "LF" THEN Fail
    ELSE IF line[i] = "QUOTE" THEN [ok |-> TRUE, value |-> acc, next |-> i + 1]
    ELSE IF line[i] = "BSL"
         THEN IF i + 1 <= Len(line) /\ line[i + 1] \in {"n", "QUOTE", "BSL"}
              THEN ReadString(line, i + 2, Append(acc, Unescape(line[i + 1])))
              ELSE Fail
    ELSE ReadString(line, i + 1, Append(acc, line[i]))
StringAt(line, i) ==
    IF i >= 1 /\ i <= Len(line) /\ line[i] = "QUOTE"
    THEN ReadString(line, i + 1, <<>>) ELSE Fail
NumberAt(line, i) ==
    IF i >= 1 /\ i <= Len(line) /\ \E d \in 1..Len(Digits) : Digits[d] = line[i]
    THEN [ok |-> TRUE,
          value |-> (CHOOSE d \in 1..Len(Digits) : Digits[d] = line[i]) - 1,
          next |-> i + 1]
    ELSE Fail
Literal(line, i, tokens) ==
    IF i >= 1 /\ i + Len(tokens) - 1 <= Len(line)
       /\ SubSeq(line, i, i + Len(tokens) - 1) = tokens
    THEN [ok |-> TRUE, value |-> <<>>, next |-> i + Len(tokens)] ELSE Fail
json_loads(line) ==
    LET a == Literal(line, 1, <<"{", "query:">>)
        q == StringAt(line, a.next)
        b == Literal(line, q.next, <<",", "SP", "response:">>)
        r == StringAt(line, b.next)
        c == Literal(line, r.next, <<",", "SP", "relevance:">>)
        rel == NumberAt(line, c.next)
        d == Literal(line, rel.next, <<",", "SP", "quality:">>)
        qual == NumberAt(line, d.next)
        e == Literal(line, qual.next, <<",", "SP", "comments:">>)
        com == StringAt(line, e.next)
        z == Literal(line, com.next, <<"}">>)
    IN  IF z.ok /\ z.next = Len(line) + 1
        THEN [raised |-> "none",
              value |-> [query |-> q.value, response |-> r.value,
                         relevance |-> rel.value, quality |-> qual.value,
                         comments |-> com.value]]
        ELSE [raised |-> "JSONDecodeError", value |-> <<>>]

\* for line in f: the lines of the text, each with its newline
RECURSIVE Lines(_, _)
Lines(text, line) ==
    IF text = <<>> THEN IF line = <<>> THEN <<>> ELSE <<line>>
    ELSE IF Head(text) = "LF" THEN <<Append(line, "LF")>> \o Lines(Tail(text), <<>>)
    ELSE Lines(Tail(text), Append(line, Head(text)))
\* line.strip()
RECURSIVE LStrip(_)
LStrip(line) ==
    IF line # <<>> /\ Head(line) \in Whitespace THEN LStrip(Tail(line)) ELSE line
RECURSIVE RStrip(_)
RStrip(line) ==
    IF line # <<>> /\ line[Len(line)] \in Whitespace
    THEN RStrip(SubSeq(line, 1, Len(line) - 1)) ELSE line
Strip(line) == RStrip(LStrip(line))

NoFile == [exists |-> FALSE, text |-> <<>>]

\* store_feedback(feedback): open(..., "a") makes the file when it is
\* missing and writes at its end
store_feedback(file, f) ==
    [exists |-> TRUE, text |-> file.text \o json_dump(f) \o <<"LF">>]

\* load_feedback_data(): a missing file gives the empty list, a line json
\* cannot read ends the call with its exception
RECURSIVE LoadLines(_, _)
LoadLines(lines, feedback_data) ==
    IF lines = <<>> THEN [raised |-> "none", value |-> feedback_data]
    ELSE LET parsed == json_loads(Strip(Head(lines)))
         IN  IF parsed.raised # "none" THEN parsed
             ELSE LoadLines(Tail(lines), Append(feedback_data, parsed.value))
load_feedback_data(file) ==
    IF ~file.exists THEN [raised |-> "none", value |-> <<>>]
    ELSE LoadLines(Lines(file.text, <<>>), <<>>)

\* fine_tune_index(feedback_data, texts); the index encode_from_string
\* builds is known by the text it was built from
IsGoodResponseMutant(f) == f.relevance >= GoodRating \/ f.quality >= GoodRating
IsGoodResponse(f) == f.relevance >= GoodRating /\ f.quality >= GoodRating
RECURSIVE Join(_, _)
Join(sep, ss) ==
    IF ss = <<>> THEN <<>>
    ELSE IF Len(ss) = 1 THEN Head(ss)
    ELSE Head(ss) \o sep \o Join(sep, Tail(ss))
fine_tune_index(feedback_data, texts) ==
    LET good_responses == SelectSeq(feedback_data, IsGoodResponse)
        additional_texts ==
            Build(LAMBDA i : good_responses[i].query \o <<"SP">>
                                \o good_responses[i].response,
                  Len(good_responses))
        all_texts == texts \o Join(<<"SP">>, additional_texts)
    IN  [text |-> all_texts]

\* adjust_relevance_scores(query, docs, feedback_data); answers[i][j] is
\* what the evaluator answers for document i and feedback j
Answers == {"Yes", "No", "yes"}
DocScores == {1, 2}
AdjustRatings == {Neutral, Neutral + 2}
AdjustFeedbacks == {get_user_feedback(<<"a">>, <<"n">>, relevance, GoodRating) :
                       relevance \in AdjustRatings}
IsRelevant(answer) == answer = "yes"
RECURSIVE Sum(_)
Sum(ns) == IF ns = <<>> THEN 0 ELSE Head(ns) + Sum(Tail(ns))
Adjusted(doc, feedback_data, answer) ==
    LET picked == {j \in 1..Len(feedback_data) : IsRelevant(answer[j])}
        relevant_feedback == SelectSeq(
            Build(LAMBDA j : IF j \in picked THEN feedback_data[j].relevance ELSE 0,
                  Len(feedback_data)),
            LAMBDA r : r # 0)
    IN  IF relevant_feedback # <<>>
        THEN [id |-> doc.id,
              key |-> <<doc.key[1] * Sum(relevant_feedback),
                        doc.key[2] * Len(relevant_feedback) * Neutral>>]
        ELSE doc
adjust_relevance_scores(docs, feedback_data, answers) ==
    SortedReverse(Build(LAMBDA i : Adjusted(docs[i], feedback_data, answers[i]),
                        Len(docs)))

NoFeedback == [file |-> NoFile, stored |-> <<>>, pc |-> "idle",
               feedback_data |-> <<>>, result |-> NoResult,
               index |-> [text |-> <<>>], docs |-> <<>>, answers |-> <<>>]

\* ---- adaptive retrieval (adaptive_retrieval.ipynb) ----
\* self.strategies: the strategy registered for each category
Categories == {"Factual", "Analytical", "Opinion", "Contextual"}
strategies ==
    [c \in Categories |->
        CASE c = "Factual" -> "FactualRetrievalStrategy"
          [] c = "Analytical" -> "AnalyticalRetrievalStrategy"
          [] c = "Opinion" -> "OpinionRetrievalStrategy"
          [] c = "Contextual" -> "ContextualRetrievalStrategy"]
\* categories_options.category is declared str: the language model is asked
\* for one of the four options and can answer any string
ClassifierAnswers == Categories \cup {"factual", "Other"}
\* what a strategy's retrieve gives: documents of the corpus, chosen by the
\* index and the language model
Seqs(S, n) == UNION {[1..m -> S] : m \in 0..n}
Retrieved == Seqs(1..MaxDocs, MaxDocs + 1)
\* AdaptiveRetriever.get_relevant_documents(query) with the classifier
\* answering `category` and the strategy, once invoked, giving `docs`
get_relevant_documents(category, docs) ==
    IF category \in DOMAIN strategies
    THEN [pc |-> "returned", category |-> category,
          invoked |-> <<strategies[category]>>,
          result |-> [raised |-> "none", by |-> strategies[category], value |-> docs]]
    ELSE [pc |-> "raised", category |-> category, invoked |-> <<>>,
          result |-> [raised |-> "KeyError", by |-> "none", value |-> <<>>]]

\* ---- reranking (reranking.ipynb) ----
\* the scores the language model or the cross-encoder gives a document
RerankScores == 0 .. MaxRaw
\* top_n and rerank_top_k: negative, 0, 1, the bound and above it
TopNs == {0 - 1, 0, 1, MaxDocs, MaxDocs + 2}
\* the documents the initial retrieval gives, nearest first: documents are
\* known by their place in the corpus
InitialDocs == UNION {Permutations(1..n) : n \in 0..(MaxDocs + 1)}
\* rerank_documents(query, docs, top_n) with the scorer giving scores[i]
\* for docs[i]
rerank_documents(docs, scores, top_n) ==
    LET scored_docs == Build(LAMBDA i : [doc |-> docs[i], key |-> <<scores[i], 1>>],
                             Len(docs))
        reranked_docs == SortedReverse(scored_docs)
        top == SliceTo(reranked_docs, top_n)
    IN  Build(LAMBDA i : top[i].doc, Len(top))
\* CrossEncoderRetriever.get_relevant_documents(query): the k nearest
\* documents, scored by the cross-encoder, sorted, the first rerank_top_k
similarity_search(nearest, kk) == SubSeq(nearest, 1, Min2(kk, Len(nearest)))
cross_encoder_retrieve(nearest, kk, scores, rerank_top_k) ==
    LET initial_docs == similarity_search(nearest, kk)
        scored_docs == Build(LAMBDA i : [doc |-> initial_docs[i],
                                         key |-> <<scores[i], 1>>],
                             Len(initial_docs))
        sorted_docs == SortedReverse(scored_docs)
        top == SliceTo(sorted_docs, rerank_top_k)
    IN  Build(LAMBDA i : top[i].doc, Len(top))

\* ---- hierarchical indices (hierarchical_indices.ipynb) ----
\* The summary store holds one summary per page, the detailed store the
\* chunks; chunk_page[c] is metadata["page"] of chunk c. For a query each
\* store has its documents in an order, nearest first.
\* page_filter = lambda metadata: metadata["page"] == page_number
page_filterMutant(metadata_page, page_number) == TRUE
page_filter(metadata_page, page_number) == metadata_page = page_number
\* detailed_vectorstore.similarity_search(query, k=k_chunks, filter=page_filter):
\* the index gives its `fetch` nearest chunks, the filter is applied to them
\* and the first k_chunks that pass are returned
filtered_similarity_search(nearest, chunk_page, kk, fetch, page_number) ==
    LET candidates == similarity_search(nearest, fetch)
        passing == SelectSeq(candidates,
                             LAMBDA c : page_filter(chunk_page[c], page_number))
    IN  similarity_search(passing, kk)
retrieve_hierarchical(summary_nearest, chunk_nearest, chunk_page, k_summaries, k_chunks, fetch) ==
    LET top_summaries == similarity_search(summary_nearest, k_summaries)
        page_chunks == Build(LAMBDA i : filtered_similarity_search(
                                            chunk_nearest, chunk_page, k_chunks,
                                            fetch, top_summaries[i]),
                             Len(top_summaries))
    IN  Flatten(page_chunks)

\* ---- the other notebooks: before their first call ----
NoAdaptive == [pc |-> "idle", category |-> "", invoked |-> <<>>,
               result |-> [raised |-> "none", by |-> "none", value |-> <<>>]]
NoRerank == [pc |-> "idle", by |-> "none", docs |-> <<>>, scores |-> <<>>,
             top_n |-> 0, result |-> <<>>]
NoHierarchical == [pc |-> "empty", pages |-> 0, chunk_page |-> <<>>,
                   summary_nearest |-> <<>>, chunk_nearest |-> <<>>,
                   k_summaries |-> 0, k_chunks |-> 0, relevant_chunks |-> <<>>]

\* ---- the state machine ----

\* two calls of fusion_retrieval that run at the same time
Threads == {1, 2}
NoThread == [at |-> "idle", query |-> NoQuery, k |-> 1, alpha |-> 0]
NoFrame == [all_docs |-> Unset, bm25_raw |-> Unset, vector_results |-> Unset,
            vector_scores |-> Unset, bm25_scores |-> Unset,
            combined_scores |-> Unset, sorted_indices |-> Unset,
            result |-> NoResult]

Init ==
    /\ cleaned_texts = <<>>
    /\ vectorstore = [ntotal |-> 0, empty_order |-> <<>>]
    /\ bm25 = BM25Okapi(<<>>)
    /\ argsort_ties \in {"ascending", "descending"}
    /\ pc = "idle"
    /\ query = NoQuery
    /\ k = 1
    /\ alpha = 0
    /\ all_docs = Unset
    /\ vector_results = Unset
    /\ vector_scores = Unset
    /\ bm25_scores = Unset
    /\ combined_scores = Unset
    /\ sorted_indices = Unset
    /\ result = NoResult
    /\ calls = NoCalls
    /\ threads = [t \in Threads |-> NoThread]
    /\ frames = [t \in Threads |-> NoFrame]
    /\ crag = NoCrag
    /\ feedback = NoFeedback
    /\ adaptive = NoAdaptive
    /\ rerank = NoRerank
    /\ hier = NoHierarchical

\* vectorstore, cleaned_texts = encode_pdf_and_get_split_documents(path)
EncodePdf ==
    /\ pc = "idle"
    /\ \E n \in 1..MaxDocs :
        /\ cleaned_texts' = IdSeq(n)
        /\ vectorstore' \in VectorStores(n)
    /\ UNCHANGED <<bm25, argsort_ties, pc>>
    /\ UNCHANGED call
    /\ UNCHANGED <<concurrent, notebooks>>

\* bm25 = create_bm25_index(documents); BM25Okapi divides by the number of
\* documents, so the list is not empty
CreateBm25Index ==
    /\ pc = "idle"
    /\ \E m \in 1..MaxDocs : bm25' = BM25Okapi(IdSeq(m))
    /\ UNCHANGED <<cleaned_texts, vectorstore, argsort_ties, pc>>
    /\ UNCHANGED call
    /\ UNCHANGED <<concurrent, notebooks>>

\* what a call of fusion_retrieval does to its arguments and to the globals
\* of the notebook: the function assigns its own locals only (lines 292-316)
LeavesArgumentsMutant ==
    /\ bm25' = BM25Okapi(<<>>)
    /\ UNCHANGED <<cleaned_texts, vectorstore, argsort_ties>>
LeavesArguments == UNCHANGED build

\* np.argsort runs the same sorting algorithm in every call: the order it
\* gives equal keys is that of the build, not a choice made per call
TieOrdersMutant(ties) == {"ascending", "descending"}
TieOrders(ties) == {ties}

\* one call fusion_retrieval(vectorstore, bm25, query, k, alpha), from entry
\* to return or exception
Call(q, kk, a) ==
    /\ \E out \in {fusion_retrieval(vectorstore, bm25, ties, q, kk, a) :
                      ties \in TieOrders(argsort_ties)} :
           /\ query' = q
           /\ k' = kk
           /\ alpha' = a
           /\ all_docs' = out.all_docs
           /\ vector_results' = out.vector_results
           /\ vector_scores' = out.vector_scores
           /\ bm25_scores' = out.bm25_scores
           /\ combined_scores' = out.combined_scores
           /\ sorted_indices' = out.sorted_indices
           /\ result' = out.result
           /\ calls' = out.calls
           /\ pc' = IF out.result.raised = "none" THEN "returned" ELSE "raised"
    /\ LeavesArguments
    /\ UNCHANGED <<concurrent, notebooks>>

\* top_docs = fusion_retrieval(vectorstore, bm25, query, k, alpha)
FusionRetrieval ==
    /\ pc = "idle"
    /\ \E q \in Queries(vectorstore, bm25), kk \in TopKs, a \in AlphaNums :
          Call(q, kk, a)

\* the caller consumes the list (show_context) or sees the exception; the
\* locals of the call are gone
Discard ==
    /\ pc \in {"returned", "raised"}
    /\ pc' = "idle"
    /\ query' = NoQuery
    /\ k' = 1
    /\ alpha' = 0
    /\ all_docs' = Unset
    /\ vector_results' = Unset
    /\ vector_scores' = Unset
    /\ bm25_scores' = Unset
    /\ combined_scores' = Unset
    /\ sorted_indices' = Unset
    /\ result' = NoResult
    /\ calls' = NoCalls
    /\ UNCHANGED build
    /\ UNCHANGED <<concurrent, notebooks>>

Next == EncodePdf \/ CreateBm25Index \/ FusionRetrieval \/ Discard

Spec == Init /\ [][Next]_vars

\* the same program when a call is repeated with the arguments of the call
\* before it, on the same store and the same BM25 index
RepeatKs == {1, MaxDocs}
RepeatAlphas == {0, 1, AlphaDen}
FirstCall ==
    /\ pc = "idle"
    /\ \E q \in Queries(vectorstore, bm25), kk \in RepeatKs, a \in RepeatAlphas :
          Call(q, kk, a)
CallAgain ==
    /\ pc \in {"returned", "raised"}
    /\ Call(query, k, alpha)

NextRepeat == EncodePdf \/ CreateBm25Index \/ FirstCall \/ CallAgain \/ Discard

SpecRepeat == Init /\ [][NextRepeat]_vars

\* the same program when a collaborator raises during the call: the store or
\* the BM25 index fails on the query (lines 295, 298, 301)
FailingKs == {1, MaxDocs}
FailingAlphas == {0, AlphaDen}
FusionRetrievalFails ==
    /\ pc = "idle"
    /\ \E q \in FailingQueries(vectorstore, bm25), kk \in FailingKs,
          a \in FailingAlphas : Call(q, kk, a)

NextFailing == EncodePdf \/ CreateBm25Index \/ FusionRetrievalFails \/ Discard

SpecFailing == Init /\ [][NextFailing]_vars

\* ---- concurrent calls ----
\* Two threads call fusion_retrieval on the same store and the same BM25
\* index; a step of a thread is one statement of the function.  The store and
\* the index answer reads at any time (they are not written after the build).

\* every name fusion_retrieval assigns is a local of the call: each call has a
\* frame of its own
LocalMutant(t) == 1
Local(t) == t

\* the query about chunk d: d is the nearest chunk and the only BM25 match
TargetQuery(n, d) ==
    LET Far(e) == Min2(IF e > d THEN e - d ELSE d - e, MaxRaw)
        Match(e) == IF e = d THEN MaxRaw ELSE 0
    IN [dist |-> Build(Far, n), bm25 |-> Build(Match, n), fails |-> "none"]
ConcurrentKs == {1, MaxDocs}
ConcurrentAlphas == {0, 1, AlphaDen}

InitConcurrent ==
    /\ \E n \in 1..MaxDocs :
          /\ cleaned_texts = IdSeq(n)
          /\ vectorstore \in VectorStores(n)
          /\ bm25 = BM25Okapi(IdSeq(n))
    /\ argsort_ties \in {"ascending", "descending"}
    /\ pc = "idle"
    /\ query = NoQuery
    /\ k = 1
    /\ alpha = 0
    /\ all_docs = Unset
    /\ vector_results = Unset
    /\ vector_scores = Unset
    /\ bm25_scores = Unset
    /\ combined_scores = Unset
    /\ sorted_indices = Unset
    /\ result = NoResult
    /\ calls = NoCalls
    /\ threads = [t \in Threads |-> NoThread]
    /\ frames = [t \in Threads |-> NoFrame]
    /\ crag = NoCrag
    /\ feedback = NoFeedback
    /\ adaptive = NoAdaptive
    /\ rerank = NoRerank
    /\ hier = NoHierarchical

\* thread t moves from statement `from` to statement `to`
Goes(t, from, to) ==
    /\ threads[t].at = from
    /\ threads' = [threads EXCEPT ![t].at = to]
    /\ UNCHANGED <<build, pc, call, notebooks>>

\* line 277: the call is entered with its arguments
Enter(t) ==
    /\ threads[t].at = "idle"
    /\ \E d \in 1..vectorstore.ntotal, kk \in ConcurrentKs, a \in ConcurrentAlphas :
          threads' = [threads EXCEPT ![t] =
                         [at |-> "295", k |-> kk, alpha |-> a,
                          query |-> TargetQuery(vectorstore.ntotal, d)]]
    /\ frames' = [frames EXCEPT ![Local(t)] = NoFrame]
    /\ UNCHANGED <<build, pc, call, notebooks>>

Line295(t) ==
    /\ Goes(t, "295", "298")
    /\ frames' = [frames EXCEPT ![Local(t)].all_docs =
                      similarity_search_empty(vectorstore, vectorstore.ntotal)]

Line298(t) ==
    /\ Goes(t, "298", "301")
    /\ frames' = [frames EXCEPT ![Local(t)].bm25_raw =
                      get_scores(bm25, threads[t].query.bm25)]

Line301(t) ==
    /\ Goes(t, "301", "305")
    /\ frames' = [frames EXCEPT ![Local(t)].vector_results =
                      similarity_search_with_score(vectorstore, threads[t].query.dist,
                                                   Len(frames[Local(t)].all_docs))]

\* lines 304-305
Line305(t) ==
    /\ Goes(t, "305", "307")
    /\ LET vres == frames[Local(t)].vector_results
           Score(i) == vres[i].score
       IN frames' = [frames EXCEPT ![Local(t)].vector_scores =
                        NormalizeVectorScores(Build(Score, Len(vres)))]

Line307(t) ==
    /\ Goes(t, "307", "310")
    /\ frames' = [frames EXCEPT ![Local(t)].bm25_scores =
                      NormalizeBm25Scores(frames[Local(t)].bm25_raw)]

Line310(t) ==
    /\ Goes(t, "310", "313")
    /\ frames' = [frames EXCEPT ![Local(t)].combined_scores =
                      Combine(threads[t].alpha, frames[Local(t)].vector_scores,
                              frames[Local(t)].bm25_scores)]

Line313(t) ==
    /\ Goes(t, "313", "316")
    /\ frames' = [frames EXCEPT ![Local(t)].sorted_indices =
                      Reversed(Argsort(frames[Local(t)].combined_scores, argsort_ties))]

Line316(t) ==
    /\ Goes(t, "316", "returned")
    /\ frames' = [frames EXCEPT ![Local(t)].result =
                      TopDocuments(frames[Local(t)].all_docs,
                                   frames[Local(t)].sorted_indices, threads[t].k)]

\* the caller of thread t has the list; the call and its locals are gone
Leave(t) ==
    /\ threads[t].at = "returned"
    /\ threads' = [threads EXCEPT ![t] = NoThread]
    /\ frames' = [frames EXCEPT ![Local(t)] = NoFrame]
    /\ UNCHANGED <<build, pc, call, notebooks>>

NextConcurrent ==
    \E t \in Threads :
        \/ Enter(t)
        \/ Line295(t)
        \/ Line298(t)
        \/ Line301(t)
        \/ Line305(t)
        \/ Line307(t)
        \/ Line310(t)
        \/ Line313(t)
        \/ Line316(t)
        \/ Leave(t)

SpecConcurrent == InitConcurrent /\ [][NextConcurrent]_vars

\* ---- corrective RAG: the calls ----
\* the answers a FAISS index of n chunks gives: nearest first, here the chunk
\* order or its reverse
Nearest(n) == {vs.empty_order : vs \in VectorStores(n)}

\* response = crag_process(query, vectorstore)
CragProcess ==
    /\ crag.pc = "idle"
    /\ \E n \in 1..MaxDocs :
          \E nearest \in Nearest(n), scores \in [1..n -> EvalScores],
             web_results \in WebResults :
                crag' = crag_process("query", nearest, scores, web_results)
    /\ UNCHANGED <<fusion, feedback, adaptive, rerank, hier>>

\* the response is printed, or the exception ends the cell
CragDone ==
    /\ crag.pc \in {"returned", "raised"}
    /\ crag' = NoCrag
    /\ UNCHANGED <<fusion, feedback, adaptive, rerank, hier>>

NextCrag == CragProcess \/ CragDone

SpecCrag == Init /\ [][NextCrag]_vars

\* ---- the feedback loop: the file and the calls on it ----
\* !wget -O data/feedback_data.json ...: without the remote file the
\* download leaves an empty file
EmptyFile ==
    /\ feedback.pc = "idle"
    /\ ~feedback.file.exists
    /\ feedback' = [feedback EXCEPT !.file = [exists |-> TRUE, text |-> <<>>]]
    /\ UNCHANGED <<fusion, crag, adaptive, rerank, hier>>

\* store_feedback(get_user_feedback(query, response, relevance, quality))
StoreFeedback ==
    /\ feedback.pc = "idle"
    /\ Len(feedback.stored) < MaxFeedback
    /\ \E f \in Feedbacks :
          feedback' = [feedback EXCEPT !.file = store_feedback(feedback.file, f),
                                       !.stored = Append(feedback.stored, f)]
    /\ UNCHANGED <<fusion, crag, adaptive, rerank, hier>>

\* feedback_data = load_feedback_data()
LoadFeedbackData ==
    /\ feedback.pc = "idle"
    /\ \E out \in {load_feedback_data(feedback.file)} :
          feedback' = [feedback EXCEPT
                          !.pc = IF out.raised = "none" THEN "loaded" ELSE "raised",
                          !.feedback_data = out.value,
                          !.result = out]
    /\ UNCHANGED <<fusion, crag, adaptive, rerank, hier>>

\* new_vectorstore = fine_tune_index(feedback_data, content)
FineTuneIndex ==
    /\ feedback.pc = "loaded"
    /\ feedback' = [feedback EXCEPT
                       !.pc = "tuned",
                       !.index = fine_tune_index(feedback.feedback_data, Content)]
    /\ UNCHANGED <<fusion, crag, adaptive, rerank, hier>>

\* the cell ends: its locals are rebound by the next one, the file stays
FeedbackDone ==
    /\ feedback.pc \in {"loaded", "raised", "tuned"}
    /\ feedback' = [NoFeedback EXCEPT !.file = feedback.file,
                                      !.stored = feedback.stored]
    /\ UNCHANGED <<fusion, crag, adaptive, rerank, hier>>

NextFeedback ==
    EmptyFile \/ StoreFeedback \/ LoadFeedbackData \/ FineTuneIndex \/ FeedbackDone

SpecFeedback == Init /\ [][NextFeedback]_vars

\* adjusted_docs = adjust_relevance_scores(query, docs, feedback_data)
AdjustRelevanceScores ==
    /\ feedback.pc = "idle"
    /\ \E n \in 1..MaxDocs, nf \in 0..MaxFeedback :
          \E scores \in [1..n -> DocScores],
             feedback_data \in [1..nf -> AdjustFeedbacks],
             answers \in [1..n -> [1..nf -> Answers]] :
                LET docs == [i \in 1..n |-> [id |-> i, key |-> <<scores[i], 1>>]]
                IN  feedback' = [feedback EXCEPT
                        !.pc = "adjusted",
                        !.docs = docs,
                        !.feedback_data = feedback_data,
                        !.answers = answers,
                        !.result = [raised |-> "none",
                                    value |-> adjust_relevance_scores(
                                                  docs, feedback_data, answers)]]
    /\ UNCHANGED <<fusion, crag, adaptive, rerank, hier>>

\* the adjusted documents are used and dropped
AdjustDone ==
    /\ feedback.pc = "adjusted"
    /\ feedback' = NoFeedback
    /\ UNCHANGED <<fusion, crag, adaptive, rerank, hier>>

NextAdjust == AdjustRelevanceScores \/ AdjustDone

SpecAdjust == Init /\ [][NextAdjust]_vars

\* ---- adaptive retrieval: the calls ----
\* docs = adaptive_retriever.get_relevant_documents(query)
GetRelevantDocuments ==
    /\ adaptive.pc = "idle"
    /\ \E category \in ClassifierAnswers, docs \in Retrieved :
          adaptive' = get_relevant_documents(category, docs)
    /\ UNCHANGED <<fusion, crag, feedback, rerank, hier>>

\* the documents are used, or the exception ends the cell
AdaptiveDone ==
    /\ adaptive.pc \in {"returned", "raised"}
    /\ adaptive' = NoAdaptive
    /\ UNCHANGED <<fusion, crag, feedback, rerank, hier>>

NextAdaptive == GetRelevantDocuments \/ AdaptiveDone

SpecAdaptive == Init /\ [][NextAdaptive]_vars

\* ---- reranking: the calls ----
\* reranked_docs = rerank_documents(query, initial_docs, top_n)
RerankDocuments ==
    /\ rerank.pc = "idle"
    /\ \E docs \in InitialDocs, top_n \in TopNs :
          \E scores \in [1..Len(docs) -> RerankScores] :
             rerank' = [pc |-> "returned", by |-> "rerank_documents",
                        docs |-> docs, scores |-> scores, top_n |-> top_n,
                        result |-> rerank_documents(docs, scores, top_n)]
    /\ UNCHANGED <<fusion, crag, feedback, adaptive, hier>>

\* cross_encoder_retriever.get_relevant_documents(query)
CrossEncoderRetrieve ==
    /\ rerank.pc = "idle"
    /\ \E nearest \in InitialDocs, kk \in 1..(MaxDocs + 1), top_n \in TopNs :
          \E scores \in [1..Min2(kk, Len(nearest)) -> RerankScores] :
             rerank' = [pc |-> "returned", by |-> "CrossEncoderRetriever",
                        docs |-> similarity_search(nearest, kk),
                        scores |-> scores, top_n |-> top_n,
                        result |-> cross_encoder_retrieve(nearest, kk, scores, top_n)]
    /\ UNCHANGED <<fusion, crag, feedback, adaptive, hier>>

\* the documents are shown
RerankDone ==
    /\ rerank.pc = "returned"
    /\ rerank' = NoRerank
    /\ UNCHANGED <<fusion, crag, feedback, adaptive, hier>>

NextRerank == RerankDocuments \/ CrossEncoderRetrieve \/ RerankDone

SpecRerank == Init /\ [][NextRerank]_vars

\* ---- hierarchical indices: the calls ----
\* summary_store, detailed_store = await encode_pdf_hierarchical(path):
\* one summary per page of the PDF, and the chunks of the pages
EncodePdfHierarchical ==
    /\ hier.pc = "empty"
    /\ \E pages \in 1..MaxDocs, n \in 1..(MaxDocs + 1) :
          \E chunk_page \in [1..n -> 1..pages] :
             hier' = [hier EXCEPT !.pc = "idle", !.pages = pages,
                                  !.chunk_page = chunk_page]
    /\ UNCHANGED <<fusion, crag, feedback, adaptive, rerank>>

\* results = retrieve_hierarchical(query, summary_store, detailed_store,
\*                                 k_summaries, k_chunks)
RetrieveHierarchical ==
    /\ hier.pc = "idle"
    /\ \E summary_nearest \in Permutations(1..hier.pages),
          chunk_nearest \in {IdSeq(Len(hier.chunk_page)),
                             Reversed(IdSeq(Len(hier.chunk_page)))},
          k_summaries \in 1..MaxDocs, k_chunks \in 1..MaxDocs,
          fetch \in 1..Len(hier.chunk_page) :
             hier' = [hier EXCEPT
                         !.pc = "returned",
                         !.summary_nearest = summary_nearest,
                         !.chunk_nearest = chunk_nearest,
                         !.k_summaries = k_summaries,
                         !.k_chunks = k_chunks,
                         !.relevant_chunks = retrieve_hierarchical(
                             summary_nearest, chunk_nearest, hier.chunk_page,
                             k_summaries, k_chunks, fetch)]
    /\ UNCHANGED <<fusion, crag, feedback, adaptive, rerank>>

\* the chunks are printed; the stores stay
HierarchicalDone ==
    /\ hier.pc = "returned"
    /\ hier' = [NoHierarchical EXCEPT !.pc = "idle", !.pages = hier.pages,
                                      !.chunk_page = hier.chunk_page]
    /\ UNCHANGED <<fusion, crag, feedback, adaptive, rerank>>

NextHierarchical == EncodePdfHierarchical \/ RetrieveHierarchical \/ HierarchicalDone

SpecHierarchical == Init /\ [][NextHierarchical]_vars

\* ---- the four-chunk scenario ----
\* A corpus of four chunks doc0..doc3 (ids 1..4 here) and one query: BM25 raw
\* scores 0.0, 2.0, 4.0, 2.0 and distances 0.1, 0.5, 0.05, 0.9 of the four
\* chunks, in units of 1/ScoreDen.  The store answers the empty query in some
\* order of its own.
ScenarioBm25 == <<0, 2 * ScoreDen, 4 * ScoreDen, 2 * ScoreDen>>
ScenarioDist == <<ScoreDen \div 10, ScoreDen \div 2, ScoreDen \div 20,
                  (9 * ScoreDen) \div 10>>
ScenarioDocs == Len(ScenarioBm25)
ScenarioQuery == [dist |-> ScenarioDist, bm25 |-> ScenarioBm25, fails |-> "none"]
Orders(n) == {f \in [1..n -> 1..n] : \A i, j \in 1..n : f[i] = f[j] => i = j}

InitScenario ==
    /\ cleaned_texts = IdSeq(ScenarioDocs)
    /\ vectorstore \in {[ntotal |-> ScenarioDocs, empty_order |-> o] :
                            o \in Orders(ScenarioDocs)}
    /\ bm25 = BM25Okapi(IdSeq(ScenarioDocs))
    /\ argsort_ties \in {"ascending", "descending"}
    /\ pc = "idle"
    /\ query = NoQuery
    /\ k = 1
    /\ alpha = 0
    /\ all_docs = Unset
    /\ vector_results = Unset
    /\ vector_scores = Unset
    /\ bm25_scores = Unset
    /\ combined_scores = Unset
    /\ sorted_indices = Unset
    /\ result = NoResult
    /\ calls = NoCalls
    /\ threads = [t \in Threads |-> NoThread]
    /\ frames = [t \in Threads |-> NoFrame]
    /\ crag = NoCrag
    /\ feedback = NoFeedback
    /\ adaptive = NoAdaptive
    /\ rerank = NoRerank
    /\ hier = NoHierarchical

ScenarioRetrieval ==
    /\ pc = "idle"
    /\ \E kk \in 1..ScenarioDocs, a \in AlphaNums : Call(ScenarioQuery, kk, a)

NextScenario == ScenarioRetrieval \/ Discard

SpecScenario == InitScenario /\ [][NextScenario]_vars

\* ---- soundness of the arithmetic ----
\* Every stored coefficient c has 3 * c * c < E, so no sum of products of two
\* coefficients reaches E and the leading coefficient decides every sign.
SmallPoly(a) == \A i \in 1..5 : 3 * a[i] * a[i] < EpsInv
SmallRats(s) == \A i \in 1..Len(s) : SmallPoly(s[i].num) /\ SmallPoly(s[i].den)
CoefficientsSmall ==
    SmallRats(vector_scores) /\ SmallRats(bm25_scores) /\ SmallRats(combined_scores)
\* In the scenario the ranking compares combined scores of one denominator
\* only: the difference of two numerators has coefficients below E, so its
\* leading coefficient decides the sign.
HalfPoly(a) == \A i \in 1..5 : 2 * a[i] < EpsInv /\ 0 - EpsInv < 2 * a[i]
ScenarioArithmeticExact ==
    \A i \in 1..Len(combined_scores) :
        /\ combined_scores[i].den = combined_scores[1].den
        /\ HalfPoly(combined_scores[i].num)

\* ---- the claims ----
NTotal == vectorstore.ntotal
CorpusSize == bm25.corpus_size
Called == pc # "idle"
Aligned == NTotal = CorpusSize
ValidWeight == 0 <= alpha /\ alpha <= AlphaDen
ValidTopK == k >= 1
RawVector(i) == vector_results[i].score
RawBm25(i) == query.bm25[i]

\* C1: in every call that returns, position i of the vector scores, position
\* i of the BM25 scores and all_docs[i] belong to the same document, when the
\* BM25 index was built over the chunks of the store.
C1_SameDocumentAtEachIndex ==
    (pc = "returned" /\ bm25.documents = cleaned_texts /\ ValidTopK /\ ValidWeight) =>
        \A i \in 1..Len(all_docs) :
            /\ vector_results[i].doc = all_docs[i]
            /\ bm25.documents[i] = all_docs[i]

C3_TiesKeepIndexOrder ==
    (pc = "returned" /\ Aligned /\ ValidTopK /\ ValidWeight) =>
        \A p \in 1..Len(result.value) : \A q \in (p + 1)..Len(sorted_indices) :
            RatEq(combined_scores[sorted_indices[p]], combined_scores[sorted_indices[q]])
                => sorted_indices[p] < sorted_indices[q]

\* C4: a call whose two score vectors have different lengths ends in an error.
C4_UnequalLengthsRaise ==
    (Called /\ NTotal >= 1 /\ CorpusSize >= 1 /\ NTotal # CorpusSize
        /\ ValidTopK /\ ValidWeight) =>
        /\ pc = "raised"
        /\ result.raised # "none"

\* C5: a call with k < 1 ends in an error and returns no list.
C5_InvalidTopKRaises ==
    (Called /\ Aligned /\ NTotal >= 1 /\ ValidWeight /\ ~ValidTopK) => pc = "raised"

\* C6: a call with alpha outside [0, 1] ends in an error.
C6_InvalidWeightRaises ==
    (Called /\ Aligned /\ NTotal >= 1 /\ ValidTopK /\ ~ValidWeight) =>
        result.raised # "none"

C7_WitnessBm25 ==
    /\ pc = "raised" /\ NTotal >= 1 /\ CorpusSize = 0
    /\ result.raised = "ValueError_zero_size"

\* C8: a call that meets an empty corpus, score vectors of different lengths,
\* an alpha outside [0, 1] or a k < 1 ends in an error and gives no list.
C8_ErrorsGiveNoResult ==
    (Called /\ (\/ NTotal = 0 \/ CorpusSize = 0 \/ NTotal # CorpusSize
                \/ ~ValidWeight \/ ~ValidTopK)) =>
        /\ pc = "raised"
        /\ result.raised # "none"
        /\ result.value = <<>>

\* C9: over one corpus, with alpha = 1 every combined score equals the
\* normalised vector score at its position and the ranking is non-increasing
\* in the normalised vector scores; with alpha = 0 the same holds for the
\* normalised BM25 scores.
C9_AlphaEndpoints ==
    (pc = "returned" /\ Aligned) =>
        /\ alpha = AlphaDen =>
            /\ \A i \in 1..NTotal : RatEq(combined_scores[i], vector_scores[i])
            /\ \A p, q \in 1..NTotal : p < q =>
                  RatLeq(vector_scores[sorted_indices[q]], vector_scores[sorted_indices[p]])
        /\ alpha = 0 =>
            /\ \A i \in 1..NTotal : RatEq(combined_scores[i], bm25_scores[i])
            /\ \A p, q \in 1..NTotal : p < q =>
                  RatLeq(bm25_scores[sorted_indices[q]], bm25_scores[sorted_indices[p]])
C9_Witness ==
    /\ pc = "returned" /\ Aligned /\ NTotal = 2 /\ alpha = AlphaDen
    /\ RatLess(bm25_scores[1], bm25_scores[2])
    /\ RatLess(vector_scores[2], vector_scores[1])
    /\ sorted_indices = <<1, 2>>

\* C10: when all raw scores of a vector are the same (a single document
\* included), every normalised BM25 score is exactly 0, every normalised
\* vector score is exactly 1, and the divisor is not zero.
C10_DegenerateNormalization ==
    Called =>
        /\ (NTotal >= 1 /\ \A i \in 1..NTotal : RawVector(i) = RawVector(1)) =>
              \A i \in 1..NTotal :
                  /\ PSign(vector_scores[i].den) > 0
                  /\ RatEq(vector_scores[i], RatOne)
        /\ (NTotal >= 1 /\ CorpusSize >= 1
              /\ \A i \in 1..CorpusSize : RawBm25(i) = RawBm25(1)) =>
              \A i \in 1..CorpusSize :
                  /\ PSign(bm25_scores[i].den) > 0
                  /\ RatEq(bm25_scores[i], RatZero)
C10_Witness ==
    /\ pc = "returned" /\ Aligned /\ NTotal = 2
    /\ RawVector(1) = RawVector(2) /\ RawBm25(1) = RawBm25(2)
    /\ RatEq(vector_scores[2], RatOne) /\ RatEq(bm25_scores[2], RatZero)

\* Comparisons of a normalised score x = num/den (den > 0) with 0, with 1 and
\* with the tolerance ScoreDen * epsilon = ScoreDen/E, by the sign of one
\* polynomial each: x >= 0, x <= 1, x <= ScoreDen/E and 1 - x <= ScoreDen/E.
TimesE(a) == <<0, a[1], a[2], a[3], a[4]>>
NonNegative(x) == PSign(x.den) = 1 /\ PSign(x.num) >= 0
AtMostOne(x) == PSign(PSub(x.den, x.num)) >= 0
WithinToleranceOfZero(x) ==
    x.num[5] = 0 /\ PSign(PSub(PScale(ScoreDen, x.den), TimesE(x.num))) >= 0
WithinToleranceOfOne(x) ==
    /\ x.num[5] = 0 /\ x.den[5] = 0
    /\ PSign(PSub(PScale(ScoreDen, x.den), TimesE(PSub(x.den, x.num)))) >= 0
MinNearZero(s) ==
    /\ \A i \in 1..Len(s) : NonNegative(s[i])
    /\ \E i \in 1..Len(s) : WithinToleranceOfZero(s[i])
MaxNearOne(s) ==
    /\ \A i \in 1..Len(s) : AtMostOne(s[i])
    /\ \E i \in 1..Len(s) : WithinToleranceOfOne(s[i])

C12_Orientation ==
    Called =>
        /\ NTotal >= 1 =>
              \A i, j \in 1..NTotal :
                  /\ RawVector(i) < RawVector(j) =>
                        RatLess(vector_scores[j], vector_scores[i])
                  /\ RawVector(i) <= RawVector(j) =>
                        RatLeq(vector_scores[j], vector_scores[i])
        /\ (NTotal >= 1 /\ CorpusSize >= 1) =>
              \A i, j \in 1..CorpusSize :
                  RawBm25(i) < RawBm25(j) => RatLess(bm25_scores[i], bm25_scores[j])
C12_Witness ==
    /\ pc = "returned" /\ Aligned /\ NTotal = 2
    /\ RawVector(1) < RawVector(2) /\ RatLess(vector_scores[2], vector_scores[1])
    /\ RawBm25(1) < RawBm25(2) /\ RatLess(bm25_scores[1], bm25_scores[2])

Docs(s) == {s[i] : i \in 1..Len(s)}
HitDocs(s) == {s[i].doc : i \in 1..Len(s)}

\* C14: in every call the list of all documents and the vector hits hold
\* every chunk of the store exactly once (no truncated top-N), the vector
\* score vector has one entry per chunk of the store, the BM25 score vector one
\* entry per indexed document, and these sizes are the corpus size when the
\* BM25 index was built over the chunks of the store.
C14_ScoresCoverCorpus ==
    Called =>
        /\ Len(all_docs) = NTotal /\ Docs(all_docs) = 1..NTotal
        /\ Len(vector_results) = NTotal /\ HitDocs(vector_results) = 1..NTotal
        /\ NTotal >= 1 => Len(vector_scores) = NTotal
        /\ Len(query.bm25) = CorpusSize
        /\ (NTotal >= 1 /\ CorpusSize >= 1) => Len(bm25_scores) = CorpusSize
        /\ bm25.documents = cleaned_texts =>
              NTotal = Len(cleaned_texts) /\ CorpusSize = Len(cleaned_texts)
C14_Witness ==
    /\ pc = "returned" /\ bm25.documents = cleaned_texts /\ NTotal = MaxDocs /\ k = 1
    /\ Len(vector_scores) = MaxDocs /\ Len(bm25_scores) = MaxDocs
    /\ Len(all_docs) = MaxDocs /\ Len(result.value) = 1

Locals == <<all_docs, vector_results, vector_scores, bm25_scores,
            combined_scores, sorted_indices>>

\* C15: a call changes neither the chunk list nor the store nor the BM25
\* index; the hits it got from the store still carry the raw distances after
\* normalisation, the normalised vectors are new values of the same length; and
\* once the call is over nothing of it is left for the next call.
C15_NoSideEffects ==
    [][/\ (pc = "idle" /\ pc' # "idle") =>
            /\ build' = build
            /\ \A i \in 1..Len(vector_results') :
                  vector_results'[i].score = query'.dist[vector_results'[i].doc]
            /\ vector_scores' # Unset => Len(vector_scores') = Len(vector_results')
            /\ bm25_scores' # Unset => Len(bm25_scores') = Len(query'.bm25)
       /\ (pc # "idle" /\ pc' = "idle") =>
            /\ build' = build
            /\ Locals' = <<Unset, Unset, Unset, Unset, Unset, Unset>>
            /\ result' = NoResult /\ query' = NoQuery]_vars
C15_Witness ==
    /\ pc = "returned" /\ Aligned /\ NTotal = 2
    /\ RawVector(1) < RawVector(2) /\ RawBm25(1) < RawBm25(2)
    /\ Len(vector_scores) = 2 /\ Len(bm25_scores) = 2
    /\ cleaned_texts = <<1, 2>> /\ bm25.documents = <<1, 2>>

\* the collaborators fusion_retrieval calls after collaborator c, in its order
After(c) ==
    CASE c = "similarity_search" -> {"get_scores", "similarity_search_with_score"}
      [] c = "get_scores" -> {"similarity_search_with_score"}
      [] c = "similarity_search_with_score" -> {}

\* C17: when the store or the BM25 index raises during a call, the call ends
\* with that very exception and returns no list; the failed collaborator was
\* called once (no retry), the collaborators after it were not called, and no
\* score was normalised, combined or ranked (no fallback).
C17_CollaboratorErrorPropagates ==
    (Called /\ query.fails # "none") =>
        /\ pc = "raised"
        /\ result = [raised |-> CollaboratorError(query.fails), value |-> <<>>]
        /\ calls[query.fails] = 1
        /\ \A c \in Collaborators : calls[c] <= 1
        /\ \A c \in After(query.fails) : calls[c] = 0
        /\ vector_scores = Unset /\ bm25_scores = Unset
        /\ combined_scores = Unset /\ sorted_indices = Unset
C17_Witness ==
    /\ pc = "raised" /\ Aligned /\ NTotal = 2
    /\ query.fails = "get_scores" /\ result.raised = "get_scores_error"
    /\ calls["similarity_search"] = 1 /\ calls["get_scores"] = 1
    /\ calls["similarity_search_with_score"] = 0
C17_WitnessVector ==
    /\ pc = "raised" /\ Aligned /\ NTotal = 2
    /\ query.fails = "similarity_search_with_score"
    /\ result.raised = "similarity_search_with_score_error"
    /\ calls["similarity_search_with_score"] = 1

\* C13: for the four-chunk corpus with BM25 raw scores 0.0, 2.0, 4.0, 2.0 and
\* distances 0.1, 0.5, 0.05, 0.9 of doc0..doc3, alpha = 0.5 and k = 2, the
\* call returns doc2 then doc1 (ids 3 and 2).
C13_ScenarioResult ==
    (pc = "returned" /\ query = ScenarioQuery /\ k = 2 /\ 2 * alpha = AlphaDen) =>
        result.value = <<3, 2>>

\* what the call of thread t gives when it runs alone on the same build
Alone(t) ==
    fusion_retrieval(vectorstore, bm25, argsort_ties,
                     threads[t].query, threads[t].k, threads[t].alpha)

\* C16: two calls with queries of their own on the same store and the same
\* BM25 index do not interfere: however their statements interleave, every
\* call that returns gives the list it gives when it runs alone, with the
\* combined scores and the ranking of the lone call.
C16_ConcurrentCallsIndependent ==
    \A t \in Threads :
        threads[t].at = "returned" =>
            \A alone \in {Alone(t)} :
                /\ frames[t].result = alone.result
                /\ frames[t].combined_scores = alone.combined_scores
                /\ frames[t].sorted_indices = alone.sorted_indices
C16_Witness ==
    /\ threads[1].at = "returned" /\ threads[2].at = "310"
    /\ threads[1].query # threads[2].query
    /\ vectorstore.ntotal = 2
    /\ frames[1].result.value # <<>>
    /\ frames[2].vector_scores # Unset /\ frames[2].combined_scores = Unset

CragCalled == crag.pc # "idle"
BestDocument == crag.retrieved_docs[Index(crag.eval_scores, crag.max_score)]
FromDocument(texts) == {i \in 1..Len(texts) : texts[i].from = "document"}
FromWeb(texts) == {i \in 1..Len(texts) : texts[i].from = "web"}

\* C18: crag_process takes exactly one of three actions, decided by the
\* largest relevance score m of the retrieved documents: m > 0.7 uses the best
\* document as it is and searches nothing; m < 0.3 searches the web with the
\* rewritten query and uses no retrieved document; 0.3 <= m <= 0.7 uses both.
\* The web is searched exactly when m <= 0.7, and then once.
C18_OneOfThreeActions ==
    CragCalled =>
        /\ \A i \in 1..Len(crag.eval_scores) : crag.eval_scores[i] <= crag.max_score
        /\ \E i \in 1..Len(crag.eval_scores) : crag.eval_scores[i] = crag.max_score
        /\ crag.action \in {"correct", "incorrect", "ambiguous"}
        /\ crag.action = "correct" <=> crag.max_score > UpperThreshold
        /\ crag.action = "incorrect" <=> crag.max_score < LowerThreshold
        /\ crag.action = "ambiguous" <=>
              (LowerThreshold <= crag.max_score /\ crag.max_score <= UpperThreshold)
        /\ crag.searched =
              IF crag.max_score <= UpperThreshold
              THEN <<rewrite_query(crag.query)>> ELSE <<>>
        /\ crag.action = "correct" =>
              /\ crag.pc = "returned" /\ crag.refined = <<>>
              /\ crag.final_knowledge = <<BestDocument>>
              /\ crag.sources = <<<<"Retrieved document", "">>>>
        /\ crag.action = "incorrect" =>
              /\ FromDocument(crag.refined) = {}
              /\ FromDocument(crag.final_knowledge) = {}
              /\ crag.pc = "returned" => FromWeb(crag.final_knowledge) # {}
        /\ (crag.action = "ambiguous" /\ crag.pc = "returned") =>
              /\ \E i \in FromDocument(crag.final_knowledge) :
                    crag.final_knowledge[i].id = BestDocument.id
              /\ FromWeb(crag.final_knowledge) # {}
C18_Witness ==
    /\ crag.pc = "returned" /\ Len(crag.eval_scores) = 2
    /\ crag.eval_scores[1] = LowerThreshold /\ crag.eval_scores[2] = UpperThreshold
    /\ crag.action = "ambiguous" /\ Len(crag.searched) = 1
    /\ crag.web_results.json = "array" /\ Len(crag.sources) = 2
C18_WitnessCorrect ==
    /\ crag.pc = "returned" /\ crag.max_score = UpperThreshold + 1
    /\ crag.action = "correct" /\ crag.searched = <<>>
C18_WitnessIncorrect ==
    /\ crag.pc = "returned" /\ crag.max_score = LowerThreshold - 1
    /\ crag.action = "incorrect" /\ Len(crag.searched) = 1

\* C19: in the ambiguous case the final knowledge is the raw content of the
\* best retrieved document together with the refined web results: the web
\* results go through knowledge_refinement, the retrieved document does not.
C19_AmbiguousKeepsRawDocument ==
    (crag.pc = "returned" /\ crag.action = "ambiguous") =>
        /\ \E i \in 1..Len(crag.final_knowledge) :
              crag.final_knowledge[i] = BestDocument
        /\ \A i \in FromWeb(crag.final_knowledge) : crag.final_knowledge[i].refined
        /\ FromDocument(crag.refined) = {}

\* C20: parse_search_results gives a list of (title, link) pairs for every
\* string, the empty list when the string is not a JSON array of result
\* objects, and no failure of the parse ends crag_process with an exception.
C20_ParseFailureGivesEmptyList ==
    (CragCalled /\ crag.searched # <<>>) =>
        /\ crag.pc = "returned"
        /\ parse_search_results(crag.web_results).raised = "none"
        /\ (\/ crag.web_results.json # "array"
            \/ \E i \in 1..Len(crag.web_results.items) :
                  crag.web_results.items[i].type # "object") =>
              parse_search_results(crag.web_results).value = <<>>


\* ---- the feedback file ----
\* what the file holds, read the way load_feedback_data reads it
FileRecords == load_feedback_data(feedback.file)
\* the text a sequence of feedbacks is expected to add to the index
RECURSIVE Additions(_, _)
Additions(fs, first) ==
    IF fs = <<>> THEN <<>>
    ELSE IF Head(fs).relevance < GoodRating \/ Head(fs).quality < GoodRating
         THEN Additions(Tail(fs), first)
    ELSE (IF first THEN <<>> ELSE <<"SP">>)
         \o Head(fs).query \o <<"SP">> \o Head(fs).response
         \o Additions(Tail(fs), FALSE)

\* C21: the feedback file is an append-only log: from an absent or empty
\* file, after store_feedback(f1), ..., store_feedback(fn) the file reads back
\* as exactly <<f1, ..., fn>>, in that order and with unchanged field values,
\* so that no store alters or removes an earlier record; load_feedback_data
\* returns that list, and the empty list without an error when the file does
\* not exist.
C21_AppendOnlyLog ==
    /\ FileRecords = [raised |-> "none", value |-> feedback.stored]
    /\ feedback.pc # "raised"
    /\ feedback.pc \in {"loaded", "tuned"} =>
          /\ feedback.result.raised = "none"
          /\ feedback.feedback_data = feedback.stored
    /\ feedback.pc = "loaded" /\ ~feedback.file.exists =>
          feedback.feedback_data = <<>>

\* two records were stored, the first with a newline in its query, and read back
C21_Witness ==
    /\ feedback.pc = "loaded"
    /\ Len(feedback.stored) = MaxFeedback
    /\ feedback.stored[1].query = <<"LF">>
    /\ feedback.stored[1] # feedback.stored[2]
    /\ feedback.feedback_data = feedback.stored

\* the file does not exist and load_feedback_data gave the empty list
C21_WitnessNoFile ==
    /\ feedback.pc = "loaded"
    /\ ~feedback.file.exists
    /\ feedback.result = [raised |-> "none", value |-> <<>>]

YesEntries(i) == {j \in 1..Len(feedback.feedback_data) : feedback.answers[i][j] = "Yes"}
RECURSIVE SumRelevance(_)
SumRelevance(js) ==
    IF js = {} THEN 0
    ELSE LET j == CHOOSE x \in js : TRUE
         IN  feedback.feedback_data[j].relevance + SumRelevance(js \ {j})
\* the score document i has in the returned list
ScoreAfter(i) ==
    LET p == CHOOSE x \in 1..Len(feedback.result.value) : feedback.result.value[x].id = i
    IN  feedback.result.value[p].key
SameFraction(x, y) == x[1] * y[2] = y[1] * x[2]

\* C22: for each document, if the evaluator answers 'Yes' for at least one
\* feedback entry, the document's relevance_score is multiplied by (mean
\* relevance of those entries) / 3; if it answers 'No' for all entries the
\* score is unchanged.
C22_ScoreTimesMeanOverThree ==
    feedback.pc = "adjusted" =>
        \A i \in 1..Len(feedback.docs) :
            /\ YesEntries(i) # {} =>
                  SameFraction(ScoreAfter(i),
                               <<feedback.docs[i].key[1] * SumRelevance(YesEntries(i)),
                                 feedback.docs[i].key[2] * Cardinality(YesEntries(i)) * Neutral>>)
            /\ (\A j \in 1..Len(feedback.feedback_data) : feedback.answers[i][j] = "No") =>
                  SameFraction(ScoreAfter(i), feedback.docs[i].key)


\* ---- adaptive retrieval ----
\* C24: for every query the classifier yields one of the four categories
\* Factual, Analytical, Opinion, Contextual, and get_relevant_documents
\* invokes exactly one retrieval strategy, the one registered for that
\* category, and returns that strategy's documents.
C24_ExactlyOneStrategy ==
    adaptive.pc # "idle" =>
        /\ adaptive.category \in Categories
        /\ adaptive.pc = "returned"
        /\ Len(adaptive.invoked) = 1
        /\ adaptive.invoked[1] = strategies[adaptive.category]
        /\ adaptive.result.by = adaptive.invoked[1]


\* ---- reranking ----
\* where input document number i stands in the result, 0 when it is not there
PlaceOf(i) ==
    IF \E p \in 1..Len(rerank.result) : rerank.result[p] = rerank.docs[i]
    THEN CHOOSE p \in 1..Len(rerank.result) : rerank.result[p] = rerank.docs[i]
    ELSE 0
\* the place among the input documents of the document at place p of the result
InputOf(p) == CHOOSE i \in 1..Len(rerank.docs) : rerank.docs[i] = rerank.result[p]

C25_WitnessCrossEncoder ==
    /\ rerank.pc = "returned"
    /\ rerank.by = "CrossEncoderRetriever"
    /\ rerank.docs = <<2, 1>>
    /\ rerank.scores = <<0, 1>>
    /\ rerank.top_n = 1
    /\ rerank.result = <<1>>


\* ---- hierarchical indices ----
\* the rank of the summary of a page among the summaries found for the query
SummaryRank(page) ==
    CHOOSE r \in 1..Len(hier.summary_nearest) : hier.summary_nearest[r] = page
PageOf(p) == hier.chunk_page[hier.relevant_chunks[p]]

\* C26: every chunk retrieve_hierarchical returns is of the page of one of
\* the top k_summaries summaries found for the query, the result holds at most
\* k_summaries * k_chunks chunks, and the chunks stand grouped in the rank
\* order of their summaries.
C26_ChunksOfSelectedPages ==
    hier.pc = "returned" =>
        /\ \A p \in 1..Len(hier.relevant_chunks) :
              SummaryRank(PageOf(p)) <= hier.k_summaries
        /\ Len(hier.relevant_chunks) <= hier.k_summaries * hier.k_chunks
        /\ \A p, q \in 1..Len(hier.relevant_chunks) :
              p < q => SummaryRank(PageOf(p)) <= SummaryRank(PageOf(q))

\* two pages, one summary asked for; the chunk nearest to the query is of the
\* other page and is not returned, a chunk of the selected page is
C26_Witness ==
    /\ hier.pc = "returned"
    /\ hier.pages = 2
    /\ hier.k_summaries = 1
    /\ hier.chunk_page[hier.chunk_nearest[1]] # hier.summary_nearest[1]
    /\ hier.relevant_chunks # <<>>
    /\ \A p \in 1..Len(hier.relevant_chunks) : PageOf(p) = hier.summary_nearest[1]

\* both summaries selected: the chunks of the second-ranked page follow those
\* of the first although one of them is nearer to the query
C26_WitnessGrouped ==
    /\ hier.pc = "returned"
    /\ hier.k_summaries = 2
    /\ Len(hier.relevant_chunks) >= 2
    /\ PageOf(1) # PageOf(Len(hier.relevant_chunks))
    /\ hier.chunk_nearest[1] = hier.relevant_chunks[Len(hier.relevant_chunks)]


InUnitInterval(x) == NonNegative(x) /\ AtMostOne(x)
Between(x, a, b) ==
    \/ RatLeq(a, x) /\ RatLeq(x, b)
    \/ RatLeq(b, x) /\ RatLeq(x, a)

\* C28: for alpha in [0, 1] every normalised vector score, every normalised
\* BM25 score and every combined score lies in [0, 1], and each combined score
\* lies between the two normalised scores it was combined from (inclusive).
C28_ScoresInUnitInterval ==
    (Called /\ ValidWeight) =>
        /\ \A i \in 1..Len(vector_scores) : InUnitInterval(vector_scores[i])
        /\ \A i \in 1..Len(bm25_scores) : InUnitInterval(bm25_scores[i])
        /\ \A i \in 1..Len(combined_scores) :
              /\ InUnitInterval(combined_scores[i])
              /\ Between(combined_scores[i], At(vector_scores, i), At(bm25_scores, i))

\* alpha = 1/2 and two documents: the first has the higher vector score and
\* the lower BM25 score, and its combined score is strictly between the two
C28_Witness ==
    /\ pc = "returned" /\ Aligned /\ NTotal = 2
    /\ 0 < alpha /\ alpha < AlphaDen
    /\ RatLess(bm25_scores[1], combined_scores[1])
    /\ RatLess(combined_scores[1], vector_scores[1])

\* C29: for k >= 1 the result holds no document twice and only documents of
\* the corpus: the ranking is a prefix of a permutation of all corpus indices.
C29_PrefixOfPermutation ==
    (pc = "returned" /\ k >= 1) =>
        /\ \A p, q \in 1..Len(result.value) :
              result.value[p] = result.value[q] => p = q
        /\ \A p \in 1..Len(result.value) :
              \E i \in 1..Len(cleaned_texts) : cleaned_texts[i] = result.value[p]
        /\ Aligned =>
              /\ Len(sorted_indices) = NTotal
              /\ \A i \in 1..NTotal : \E p \in 1..NTotal : sorted_indices[p] = i
              /\ Len(result.value) <= NTotal
              /\ \A p \in 1..Len(result.value) :
                    result.value[p] = all_docs[sorted_indices[p]]

\* both documents of a corpus of two were asked for and came back, the second
\* one first
C29_Witness ==
    /\ pc = "returned" /\ Aligned /\ NTotal = 2 /\ k >= 2
    /\ sorted_indices = <<2, 1>>
    /\ Len(result.value) = 2
    /\ result.value[1] # result.value[2]

====
